---- MODULE Spec2Model ----
(***************************************************************************)
(* Model of src/helpers.js and src/dots.js (slvrlane-creative-lib): the    *)
(* ImageData grain pass addGrain, the seed helper initiateSeed and the     *)
(* drawing functions with the state of the 2D context they draw on.        *)
(*                                                                         *)
(* Numbers.  grain.data is the Uint8ClampedArray of an ImageData: every    *)
(* element holds an integer 0..255 and every store converts the stored     *)
(* number (round to nearest, ties to even, then clamp).  random.range      *)
(* returns fractions, so the numbers that are offered to a store are kept  *)
(* in quarter units: the integer q stands for the number q/4.              *)
(***************************************************************************)
EXTENDS Integers, Sequences, FiniteSets, TLC

\* ------------------------------------------------------------------ bounds
MaxPixels == 2      \* width * height of the canvas
MaxCalls == 2       \* calls of addGrain and initiateSeed in one behaviour
MaxDraws == 6       \* draws taken from the shared generator in one behaviour
MaxRepeat == 2      \* circles, segments, dots and footer colours of one drawing call

\* Sample bitmaps (r, g, b, a per pixel) a canvas starts with.
SampleBuffers ==
  { <<0, 0, 0, 255>>,
    <<250, 1, 128, 7>>,
    <<10, 20, 30, 255, 200, 200, 200, 0>>,
    <<10, 20, 30, 255, 250, 1, 128, 7, 200, 200, 200, 0>> }

\* Values of random.value() that are sampled, in quarters: u stands for u/4.
\* u = 4 stands for the draws just below 1, whose stored results are the same.
ValueSamples == {0, 2, 3, 4}

\* A call that passes no style argument.
Omitted == "(omitted)"

\* Style arguments that are tried.
Styles == {"colorful", "parallel", "red", "invert", "nonsense", Omitted}

\* Seeds handed to initiateSeed: a JS value is a record (type tag, number, string).
Num(n) == [t |-> "number", n |-> n, s |-> ""]
Str(s) == [t |-> "string", n |-> 0, s |-> s]
Undefined == [t |-> "undefined", n |-> 0, s |-> ""]
Null == [t |-> "null", n |-> 0, s |-> ""]
SeedSamples == {Undefined, Null, Num(0), Num(123456), Str(""), Str("abc")}

\* Results of Math.random() that are sampled, in millionths.
MathRandomSamples == {0, 40302, 999999}

\* States of the shared canvas-sketch generator's seed (the main script sets it).
RngSeeds == {"unseeded", "42"}

VARIABLES
  surface,      \* bitmap of the canvas, 4 bytes per pixel
  size,         \* <<width, height>>
  pc,           \* "idle", or the inner function of addGrain whose loop is running
  style,        \* style parameter of the current (or last) addGrain call
  styleArg,     \* history: the style argument as the caller passed it
  grainPixels,  \* grain.data of the current (or last) call
  i,            \* loop index of the running pass
  cursor,       \* number of draws taken from the shared generator
  rngSeed,      \* seed of the shared generator
  putCalls,     \* number of context.putImageData calls
  calls,        \* number of calls of addGrain and initiateSeed
  input,        \* history: grain.data as getImageData returned it
  drawn,        \* history: the draws of the current (or last) call, in order
  visited,      \* history: the loop indices whose body ran in the current call
  hist,         \* history: the addGrain calls that returned
  cursorAtCall, \* history: cursor when the current (or last) call began
  mathCalls,    \* number of Math.random calls
  seedArg,      \* history: argument of the last initiateSeed call
  seedResult,   \* return value of the last initiateSeed call
  ctx,          \* drawing state of the 2D context
  ctxStack,     \* the states context.save() pushed, oldest first
  ops,          \* context operations the running drawing call has still to make
  call,         \* the running drawing call: its function and its color argument
  painted,      \* history: the fills and strokes of the running drawing call
  ctx0,         \* history: ctx before the first call
  stack0        \* history: ctxStack before the first call

grainVars == <<surface, size, pc, style, styleArg, grainPixels, i, putCalls,
               input, drawn, visited, hist>>
vars == <<surface, size, pc, style, styleArg, grainPixels, i, cursor, rngSeed, putCalls, calls,
          input, drawn, visited, hist, cursorAtCall, mathCalls, seedArg, seedResult,
          ctx, ctxStack, ops, call, painted, ctx0, stack0>>
drawVars == <<ctx, ctxStack, ops, call, painted, ctx0, stack0>>

\* ----------------------------------------------------------- pure helpers
\* Sampled bitmaps getImageData(0, 0, w, h) can return.
Buffers(w, h) == { b \in SampleBuffers : Len(b) = 4 * w * h }

\* Canvas sizes <<width, height>> that are sampled: landscape, at most MaxPixels pixels.
Sizes ==
  { wh \in (1..MaxPixels) \X (1..MaxPixels) : wh[1] * wh[2] <= MaxPixels /\ wh[2] <= wh[1] }

\* Variant: the store conversion of a Uint8Array (truncate, then modulo 256).
ToUint8Wrap(q) ==
  LET t == IF q >= 0 THEN q \div 4 ELSE 0 - ((0 - q) \div 4)
  IN t % 256

\* Store conversion of a Uint8ClampedArray for the number q/4.
ToUint8Clamp(q) ==
  IF q <= 0 THEN 0
  ELSE IF q >= 4 * 255 THEN 255
  ELSE LET f == q \div 4
           r == q % 4
       IN IF r < 2 THEN f
          ELSE IF r > 2 THEN f + 1
          ELSE IF f % 2 = 0 THEN f ELSE f + 1

\* grainPixels[idx], as a number in quarters (idx counts from 0).
Get(px, idx) == 4 * px[idx + 1]

\* grainPixels[idx] = q/4.
Put(px, idx, q) == [px EXCEPT ![idx + 1] = ToUint8Clamp(q)]

\* random.range(min, max): value() * (max - min) + min, in quarters.
range(min, max) == { 4 * min + u * (max - min) : u \in ValueSamples }

\* Variant: the cursor moves by one whatever the number of calls.
AdvanceOnce(c, n) == c + 1

\* The generator's cursor after n more calls of value().
Advance(c, n) == c + n

\* ------------------------------------------------ the loop bodies of addGrain
\* Variant: the first draw is used for all three channels.
colorGrainBodyOneDraw(px, k, v0, v1, v2) ==
  LET p0 == Put(px, k + 0, Get(px, k + 0) + v0)
      p1 == Put(p0, k + 1, Get(p0, k + 1) + v0)
      p2 == Put(p1, k + 2, Get(p1, k + 2) + v0)
  IN Put(p2, k + 3, 4 * 255)

\* Variant: alpha is not set.
colorGrainBodyKeepsAlpha(px, k, v0, v1, v2) ==
  LET p0 == Put(px, k + 0, Get(px, k + 0) + v0)
      p1 == Put(p0, k + 1, Get(p0, k + 1) + v1)
  IN Put(p1, k + 2, Get(p1, k + 2) + v2)

\* colorGrain, one iteration at index k with the three draws v0, v1, v2.
colorGrainBody(px, k, v0, v1, v2) ==
  LET p0 == Put(px, k + 0, Get(px, k + 0) + v0)
      p1 == Put(p0, k + 1, Get(p0, k + 1) + v1)
      p2 == Put(p1, k + 2, Get(p1, k + 2) + v2)
  IN Put(p2, k + 3, 4 * 255)

\* Variant: the third store goes to green again, blue is left alone.
parallelGrainBodyGreenTwice(px, k, variant) ==
  LET p0 == Put(px, k + 0, Get(px, k + 0) + variant)
      p1 == Put(p0, k + 1, Get(p0, k + 1) + variant)
      p2 == Put(p1, k + 1, Get(p1, k + 1) + variant)
  IN Put(p2, k + 3, 4 * 255)

\* parallelGrain, one iteration at index k with the draw variant.
parallelGrainBody(px, k, variant) ==
  LET p0 == Put(px, k + 0, Get(px, k + 0) + variant)
      p1 == Put(p0, k + 1, Get(p0, k + 1) + variant)
      p2 == Put(p1, k + 2, Get(p1, k + 2) + variant)
  IN Put(p2, k + 3, 4 * 255)

\* redGrain, one iteration at index k with the draw variant (variant * 0.5 is
\* exact in quarters: every sampled draw of range(50, 100) is an even number of them).
redGrainBody(px, k, variant) ==
  LET p0 == Put(px, k + 0, Get(px, k + 0) + variant)
      p1 == Put(p0, k + 1, Get(p0, k + 1) - (variant \div 2))
  IN Put(p1, k + 2, Get(p1, k + 2) - (variant \div 2))

\* Variant: blue is not inverted.
invertBodyKeepsBlue(px, k) ==
  LET p0 == Put(px, k, 4 * 255 - Get(px, k))
  IN Put(p0, k + 1, 4 * 255 - Get(p0, k + 1))

\* Variant: alpha is set to 255 as the jitter styles do.
invertBodyOpaque(px, k) ==
  LET p0 == Put(px, k, 4 * 255 - Get(px, k))
      p1 == Put(p0, k + 1, 4 * 255 - Get(p0, k + 1))
      p2 == Put(p1, k + 2, 4 * 255 - Get(p1, k + 2))
  IN Put(p2, k + 3, 4 * 255)

\* invert, one iteration at index k.
invertBody(px, k) ==
  LET p0 == Put(px, k, 4 * 255 - Get(px, k))
      p1 == Put(p0, k + 1, 4 * 255 - Get(p0, k + 1))
  IN Put(p1, k + 2, 4 * 255 - Get(p1, k + 2))

\* Variant: i += 8.
NextIndexSkip(k) == k + 8

\* i += 4.
NextIndex(k) == k + 4

\* Variant: the default of the parameter is the case label "parallel".
StyleParamParallel(arg) == IF arg = Omitted THEN "parallel" ELSE arg

\* style = "parallelGrain": the value of the parameter for an argument.
StyleParam(arg) == IF arg = Omitted THEN "parallelGrain" ELSE arg

\* Variant: the switch has a default case that runs parallelGrain.
DispatchDefault(st) ==
  CASE st = "colorful" -> "colorGrain"
    [] st = "red" -> "redGrain"
    [] st = "invert" -> "invert"
    [] OTHER -> "parallelGrain"

\* The switch of addGrain: the inner function a style runs, "idle" when no case matches.
Dispatch(st) ==
  CASE st = "colorful" -> "colorGrain"
    [] st = "parallel" -> "parallelGrain"
    [] st = "red" -> "redGrain"
    [] st = "invert" -> "invert"
    [] OTHER -> "idle"

\* Draws one pass over n pixels takes at most.  Only the guard of addGrain uses
\* it: a call is begun while MaxDraws leaves a draw per pixel and covers the pass.
PassDraws(st, n) ==
  CASE st = "colorful" -> 3 * n
    [] st \in {"parallel", "red"} -> n
    [] OTHER -> 0

\* The record of a call that returned.
Returned(out, put) ==
  [style |-> style, arg |-> styleArg, input |-> input, output |-> out, size |-> size,
   from |-> cursorAtCall, to |-> cursor, drawn |-> drawn, visited |-> visited,
   put |-> put]

\* ------------------------------------------------------- the 2D context
\* Lengths of the transform are in 1/4000 px, alpha values in quarters.
\* The drawing state of a context nobody has touched.
DefaultContext ==
  [transform |-> <<0, 0>>, fillStyle |-> "#000000", strokeStyle |-> "#000000",
   lineWidth |-> 1, globalAlpha |-> 4, globalCompositeOperation |-> "source-over",
   font |-> "10px sans-serif"]

\* A drawing state the sketch has set up before it calls the library.
SketchContext ==
  [transform |-> <<4000, 8000>>, fillStyle |-> "#123456", strokeStyle |-> "#654321",
   lineWidth |-> 3, globalAlpha |-> 2, globalCompositeOperation |-> "screen",
   font |-> "12px serif"]

\* Colour objects handed to the drawing functions: what myColors returns for an
\* alpha of 0, of 0.5 and for its default 1, and a riso-colors entry as it is
\* (it has no alpha).
Color(hex, hasAlpha, alpha) == [hex |-> hex, hasAlpha |-> hasAlpha, alpha |-> alpha]
Colors ==
  { Color("#ff0000", TRUE, 0), Color("#00ff00", TRUE, 2), Color("#0000ff", TRUE, 4),
    Color("#ff48b0", FALSE, 0) }

\* No drawing call is running.
NoCall == [fn |-> "", color |-> Color("", FALSE, 0)]

\* -------------------------------------------------------------------- Init
InitWith(sizes, seeds, contexts, stacks) ==
  /\ size \in sizes
  /\ surface \in Buffers(size[1], size[2])
  /\ pc = "idle"
  /\ style = "parallelGrain"
  /\ styleArg = Omitted
  /\ grainPixels = <<>>
  /\ i = 0
  /\ cursor = 0
  /\ cursorAtCall = 0
  /\ rngSeed \in seeds
  /\ putCalls = 0
  /\ calls = 0
  /\ input = <<>>
  /\ drawn = <<>>
  /\ visited = <<>>
  /\ hist = <<>>
  /\ mathCalls = 0
  /\ seedArg = Undefined
  /\ seedResult = Undefined
  /\ ctx \in contexts
  /\ ctxStack \in stacks
  /\ ctx0 = ctx
  /\ stack0 = ctxStack
  /\ ops = <<>>
  /\ call = NoCall
  /\ painted = <<>>

\* A canvas of any sampled size, the shared generator not seeded yet.
Init == InitWith(Sizes, {"unseeded"}, {DefaultContext}, {<<>>})

\* ----------------------------------------------------------------- addGrain
\* addGrain(context, size, style): getImageData and the switch.  A style that
\* matches no case falls out of the switch and the call returns at once.
addGrain ==
  /\ pc = "idle"
  /\ calls < MaxCalls
  /\ \E arg \in Styles :
       LET st == StyleParam(arg)
       IN /\ cursor + size[1] * size[2] <= MaxDraws
          /\ cursor + PassDraws(st, size[1] * size[2]) <= MaxDraws
          /\ styleArg' = arg
          /\ style' = st
          /\ pc' = Dispatch(st)
          /\ hist' = IF Dispatch(st) = "idle"
                     THEN Append(hist, [style |-> st, arg |-> arg, input |-> surface,
                                        output |-> surface, size |-> size,
                                        from |-> cursor, to |-> cursor, drawn |-> <<>>,
                                        visited |-> <<>>, put |-> FALSE])
                     ELSE hist
  /\ grainPixels' = surface
  /\ input' = surface
  /\ i' = 0
  /\ drawn' = <<>>
  /\ visited' = <<>>
  /\ cursorAtCall' = cursor
  /\ calls' = calls + 1
  /\ UNCHANGED <<surface, size, cursor, rngSeed, putCalls, mathCalls, seedArg, seedResult,
                 drawVars>>

\* context.putImageData(grain, 0, 0) after the loop, and the return to the caller.
putImageData ==
  /\ surface' = grainPixels
  /\ putCalls' = putCalls + 1
  /\ pc' = "idle"
  /\ hist' = Append(hist, Returned(grainPixels, TRUE))
  /\ UNCHANGED <<size, style, styleArg, grainPixels, i, cursor, cursorAtCall, rngSeed,
                 calls, input, drawn, visited, mathCalls, seedArg, seedResult, drawVars>>

\* What one loop iteration leaves alone.
LoopFrame ==
  UNCHANGED <<surface, size, pc, style, styleArg, cursorAtCall, rngSeed, putCalls, calls,
              input, hist, mathCalls, seedArg, seedResult, drawVars>>

colorGrain ==
  /\ pc = "colorGrain"
  /\ IF i < Len(grainPixels)
     THEN /\ \E v0 \in range(-25, 25), v1 \in range(-25, 25), v2 \in range(-25, 25) :
               /\ grainPixels' = colorGrainBody(grainPixels, i, v0, v1, v2)
               /\ drawn' = drawn \o <<v0, v1, v2>>
          /\ cursor' = Advance(cursor, 3)
          /\ visited' = Append(visited, i)
          /\ i' = NextIndex(i)
          /\ LoopFrame
     ELSE putImageData

parallelGrain ==
  /\ pc = "parallelGrain"
  /\ IF i < Len(grainPixels)
     THEN /\ \E variant \in range(-15, 15) :
               /\ grainPixels' = parallelGrainBody(grainPixels, i, variant)
               /\ drawn' = Append(drawn, variant)
          /\ cursor' = Advance(cursor, 1)
          /\ visited' = Append(visited, i)
          /\ i' = NextIndex(i)
          /\ LoopFrame
     ELSE putImageData

redGrain ==
  /\ pc = "redGrain"
  /\ IF i < Len(grainPixels)
     THEN /\ \E variant \in range(50, 100) :
               /\ grainPixels' = redGrainBody(grainPixels, i, variant)
               /\ drawn' = Append(drawn, variant)
          /\ cursor' = Advance(cursor, 1)
          /\ visited' = Append(visited, i)
          /\ i' = NextIndex(i)
          /\ LoopFrame
     ELSE putImageData

invert ==
  /\ pc = "invert"
  /\ IF i < Len(grainPixels)
     THEN /\ grainPixels' = invertBody(grainPixels, i)
          /\ visited' = Append(visited, i)
          /\ i' = NextIndex(i)
          /\ UNCHANGED <<cursor, drawn>>
          /\ LoopFrame
     ELSE putImageData

\* ------------------------------------------------------------- initiateSeed
Digit(d) ==
  CASE d = 0 -> "0" [] d = 1 -> "1" [] d = 2 -> "2" [] d = 3 -> "3" [] d = 4 -> "4"
    [] d = 5 -> "5" [] d = 6 -> "6" [] d = 7 -> "7" [] d = 8 -> "8" [] d = 9 -> "9"

RECURSIVE NumberToString(_)
NumberToString(n) ==
  IF n < 0 THEN "-" \o NumberToString(0 - n)
  ELSE IF n < 10 THEN Digit(n)
  ELSE NumberToString(n \div 10) \o Digit(n % 10)

\* String(v).
String(v) ==
  CASE v.t = "number" -> Str(NumberToString(v.n))
    [] v.t = "string" -> v
    [] v.t = "undefined" -> Str("undefined")
    [] v.t = "null" -> Str("null")

\* !v is false.
Truthy(v) ==
  CASE v.t = "number" -> v.n # 0
    [] v.t = "string" -> v.s # ""
    [] OTHER -> FALSE

\* Variant: the seed that is returned is also set on the shared generator.
initiateSeedSetsSeed ==
  /\ pc = "idle"
  /\ calls < MaxCalls
  /\ calls' = calls + 1
  /\ \E arg \in SeedSamples, m \in MathRandomSamples :
       LET seed == IF arg = Undefined THEN Num(0) ELSE arg
           fresh == seed = Num(0) \/ ~Truthy(seed)
           seedToUse == IF fresh THEN String(Num(m)) ELSE seed
       IN /\ seedArg' = arg
          /\ seedResult' = String(seedToUse)
          /\ rngSeed' = String(seedToUse).s
          /\ mathCalls' = IF fresh THEN mathCalls + 1 ELSE mathCalls
  /\ UNCHANGED <<grainVars, cursorAtCall, cursor, drawVars>>

\* initiateSeed(seed = 0): an omitted (undefined) argument takes the default 0.
initiateSeed ==
  /\ pc = "idle"
  /\ calls < MaxCalls
  /\ calls' = calls + 1
  /\ \E arg \in SeedSamples, m \in MathRandomSamples :
       LET seed == IF arg = Undefined THEN Num(0) ELSE arg
           fresh == seed = Num(0) \/ ~Truthy(seed)
           seedToUse == IF fresh THEN String(Num(m)) ELSE seed
       IN /\ seedArg' = arg
          /\ seedResult' = String(seedToUse)
          /\ mathCalls' = IF fresh THEN mathCalls + 1 ELSE mathCalls
  /\ UNCHANGED <<grainVars, cursorAtCall, cursor, rngSeed, drawVars>>

\* ---------------------------------------------------- the drawing functions
\* A drawing function is the list of the calls it makes on the context, in the
\* order of its source; contextCall makes them one at a time.
Op(op, key, s, n, by) == [op |-> op, key |-> key, s |-> s, n |-> n, dx |-> 0, dy |-> 0, by |-> by]
Save == Op("save", "", "", 0, "")
Restore == Op("restore", "", "", 0, "")
Translate(x, y) == [Op("translate", "", "", 0, "") EXCEPT !.dx = x, !.dy = y]
SetText(key, s) == Op("set", key, s, 0, "")
SetNumber(key, n) == Op("set", key, "", n, "")
Path(method) == Op("path", method, "", 0, "")
Paint(method, by) == Op("paint", method, "", 0, by)
Random(n) == Op("random", "", "", n, "")

\* The random draws a list of context calls takes.
RECURSIVE Draws(_)
Draws(o) ==
  IF o = <<>> THEN 0
  ELSE (IF o[1].op = "random" THEN o[1].n ELSE 0) + Draws(Tail(o))

\* color.alpha ?? 1: only a missing alpha is replaced
AlphaOrOneNullish(color) == IF color.hasAlpha THEN color.alpha ELSE 4

\* color.alpha || 1
AlphaOrOne(color) == IF color.hasAlpha /\ color.alpha # 0 THEN color.alpha ELSE 4

\* drawSingleDot without its context.restore()
drawSingleDotCallsNoRestore(radius, color) ==
  << Save,
     SetText("fillStyle", color.hex),
     SetNumber("globalAlpha", AlphaOrOne(color)),
     Path("beginPath"),
     Path("arc"),
     Paint("fill", "drawSingleDot") >>

drawSingleDotCalls(radius, color) ==
  << Save,
     SetText("fillStyle", color.hex),
     SetNumber("globalAlpha", AlphaOrOne(color)),
     Path("beginPath"),
     Path("arc"),
     Paint("fill", "drawSingleDot"),
     Restore >>

drawArcCalls(radius, color, lineWidth) ==
  << Save,
     SetNumber("lineWidth", lineWidth),
     SetText("strokeStyle", color.hex),
     SetNumber("globalAlpha", AlphaOrOne(color)),
     Path("beginPath"),
     Path("arc"),
     Paint("stroke", "drawArc"),
     Restore >>

drawOutlineCalls(radius, color, lineWidth) ==
  << Save,
     SetText("strokeStyle", color.hex),
     SetNumber("globalAlpha", AlphaOrOne(color)),
     SetNumber("lineWidth", lineWidth),
     Path("beginPath"),
     Path("arc"),
     Paint("stroke", "drawOutline"),
     Restore >>

drawCircumpunctCalls(outerRadius, color, innerRadius, lineWidth) ==
  drawOutlineCalls(outerRadius, color, lineWidth) \o drawSingleDotCalls(innerRadius, color)

\* The loop of drawConcentricDots from circle k on; the radius of a circle is
\* an argument of arc and does not reach the drawing state.
RECURSIVE drawConcentricDotsCalls(_, _, _, _, _, _)
drawConcentricDotsCalls(k, maxRadius, color, numCircles, lineWidth, ordered) ==
  IF k > numCircles THEN <<>>
  ELSE (IF ordered THEN <<>> ELSE <<Random(1)>>)
       \o drawOutlineCalls(maxRadius, color, lineWidth)
       \o drawConcentricDotsCalls(k + 1, maxRadius, color, numCircles, lineWidth, ordered)

\* Cosine and sine, in thousandths, of t twelfths of a turn.
Cos1000(t) ==
  << 1000, 866, 500, 0, -500, -866, -1000, -866, -500, 0, 500, 866 >>[(t % 12) + 1]
Sin1000(t) == Cos1000(t + 9)

\* The square root, in thousandths, of u quarters.
Sqrt1000(u) == << 0, 500, 707, 866, 1000 >>[u + 1]

\* The loop of drawSegmentedDots from segment k on.  radius is in px; the angle
\* is taken to the twelfth of a turn below it.
RECURSIVE drawSegmentedDotsCalls(_, _, _, _, _, _)
drawSegmentedDotsCalls(k, radius, color, dotRadius, numSegments, lineWidth) ==
  IF ~(k < numSegments) THEN <<>>
  ELSE LET angle == (12 * k) \div numSegments
           x == 4 * Cos1000(angle) * radius
           y == 4 * Sin1000(angle) * radius
       IN  << Save, Translate(x, y) >>
           \o (IF lineWidth > 0 THEN drawOutlineCalls(dotRadius, color, lineWidth)
                                ELSE drawSingleDotCalls(dotRadius, color))
           \o << Restore >>
           \o drawSegmentedDotsCalls(k + 1, radius, color, dotRadius, numSegments, lineWidth)

\* What the generator returns for one dot of drawSplash: the quarters drawn for
\* the angle, the radius and the root, and the draws random.gaussian takes (0
\* when it returns the value it kept from its last call, else 2 per try).
SplashSamples ==
  { [angle |-> 0, radius |-> 0, root |-> 0, gaussian |-> 0],
    [angle |-> 2, radius |-> 4, root |-> 4, gaussian |-> 2],
    [angle |-> 3, radius |-> 2, root |-> 3, gaussian |-> 2],
    [angle |-> 4, radius |-> 3, root |-> 2, gaussian |-> 0] }

\* The loop of drawSplash from dot k on; numDots is in halves (200 * density
\* need not be whole), rnd[k + 1] is what the generator returns for dot k.
RECURSIVE drawSplashCalls(_, _, _, _, _)
drawSplashCalls(k, maxRadius, color, numDots, rnd) ==
  IF ~(2 * k < numDots) THEN <<>>
  ELSE LET angle == 3 * rnd[k + 1].angle
           radius == rnd[k + 1].radius * maxRadius * Sqrt1000(rnd[k + 1].root)
           x == (Cos1000(angle) * radius) \div 1000
           y == (Sin1000(angle) * radius) \div 1000
       IN  << Random(1), Random(1), Random(1), Random(rnd[k + 1].gaussian),
              Save, Translate(x, y) >>
           \o drawSingleDotCalls(maxRadius, color)
           \o << Restore >>
           \o drawSplashCalls(k + 1, maxRadius, color, numDots, rnd)

\* The fillStyle a gradient object makes, written as its two colour stops.
Gradient(stop0, stop1) == "radial-gradient(" \o stop0 \o ", " \o stop1 \o ")"

drawRadialGradientCalls(radius, color) ==
  << Save,
     SetText("fillStyle", Gradient(color.hex, "rgba(255, 255, 255, 0)")),
     Path("beginPath"),
     Path("arc"),
     Paint("fill", "drawRadialGradient"),
     Restore >>

drawRadialVignetteCalls(radius, color) ==
  << Save,
     SetText("fillStyle", Gradient("rgba(255, 255, 255, 0)", color.hex)),
     Path("beginPath"),
     Path("arc"),
     Paint("fill", "drawRadialVignette"),
     Restore >>

\* The loop of addGrain2 from grain k on; rnd[k + 1] is the quarter drawn for
\* the alpha of grain k: random.range(0.5, 0.9) is 5 + rnd[k + 1] tenths.
RECURSIVE addGrain2Loop(_, _, _)
addGrain2Loop(k, amount, rnd) ==
  IF ~(k < amount) THEN <<>>
  ELSE << Random(3),
          SetText("fillStyle", "rgba(0, 0, 0, 0." \o Digit(5 + rnd[k + 1]) \o ")"),
          Paint("fillRect", "addGrain2") >>
       \o addGrain2Loop(k + 1, amount, rnd)

\* Math.floor(totalPixels * density / (grainSize * grainSize)), density in quarters
GrainAmount(width, height, density, grainSize) ==
  (width * height * density) \div (4 * grainSize * grainSize)

addGrain2Calls(width, height, density, grainSize, rnd) ==
  << Save, SetText("globalCompositeOperation", "multiply") >>
  \o addGrain2Loop(0, GrainAmount(width, height, density, grainSize), rnd)
  \o << Restore >>

\* A number of thousandths below one as JavaScript writes it: "0.015", "0.03".
Thousandths(k) ==
  "0." \o Digit(k \div 100)
       \o (IF k % 100 = 0 THEN ""
           ELSE Digit((k \div 10) % 10) \o (IF k % 10 = 0 THEN "" ELSE Digit(k % 10)))

\* drawLine of printFooter; m is Math.min(width, height), so that fontSize is
\* 60 * m, boxHeight 90 * m and padding 30 * m.
drawLine(m, withColor, hex) ==
  << Translate(0, 0 - 90 * m - 15 * m),
     SetText("fillStyle", "rgba(255, 255, 255, 0.85)"),
     Paint("fillRect", "printFooter") >>
  \o (IF withColor
        THEN << SetText("fillStyle", hex), Paint("fillRect", "printFooter") >>
        ELSE <<>>)
  \o << SetText("fillStyle", "rgba(0, 0, 0, 0.8)"),
        Paint("fillText", "printFooter") >>

\* colorList.slice().reverse().forEach(drawLine), from the last colour down
RECURSIVE colorLines(_, _, _)
colorLines(m, colorList, n) ==
  IF n = 0 THEN <<>>
  ELSE drawLine(m, TRUE, colorList[n].hex) \o colorLines(m, colorList, n - 1)

Min(a, b) == IF a < b THEN a ELSE b

printFooterCalls(width, height, seeds, colorList) ==
  LET m == Min(width, height)
  IN  << Save,
         SetText("globalCompositeOperation", "source-over"),
         SetText("font", Thousandths(15 * m) \o "px Inter, sans-serif"),
         Translate(30 * m, 4000 * height - 30 * m) >>
      \o drawLine(m, FALSE, "")
      \o (IF seeds.given /\ seeds.color # "" THEN drawLine(m, FALSE, "") ELSE <<>>)
      \o (IF seeds.given /\ seeds.shape # "" THEN drawLine(m, FALSE, "") ELSE <<>>)
      \o colorLines(m, colorList, Len(colorList))
      \o << Restore >>

\* Arguments of the drawing functions.
Radius == 2
LineWidths == {0, 2}
Palette == << Color("#ff0000", TRUE, 0), Color("#00ff00", TRUE, 2),
              Color("#0000ff", TRUE, 4), Color("#ff48b0", FALSE, 0) >>
ColorLists == { SubSeq(Palette, 1, n) : n \in 0..Min(MaxRepeat, Len(Palette)) }
SeedsSamples ==
  { [given |-> FALSE, color |-> "", shape |-> ""],
    [given |-> TRUE, color |-> "42", shape |-> ""],
    [given |-> TRUE, color |-> "42", shape |-> "7"] }
Densities == {1, 4}
GrainSizes == {1, 2}

\* A drawing function is called while nothing else runs (pc = "idle"): from
\* here on it makes the context calls o.
Begin(fn, color, o) ==
  /\ calls < MaxCalls
  /\ cursor + Draws(o) <= MaxDraws
  /\ calls' = calls + 1
  /\ ops' = o
  /\ call' = IF o = <<>> THEN NoCall ELSE [fn |-> fn, color |-> color]
  /\ pc' = IF o = <<>> THEN "idle" ELSE "draw"
  /\ painted' = <<>>
  /\ UNCHANGED <<surface, size, style, styleArg, grainPixels, i, cursor, rngSeed, putCalls,
                 input, drawn, visited, hist, cursorAtCall, mathCalls, seedArg, seedResult,
                 ctx, ctxStack, ctx0, stack0>>

drawSingleDot ==
  /\ pc = "idle"
  /\ \E color \in Colors : Begin("drawSingleDot", color, drawSingleDotCalls(Radius, color))

drawArc ==
  /\ pc = "idle"
  /\ \E color \in Colors, lineWidth \in LineWidths :
       Begin("drawArc", color, drawArcCalls(Radius, color, lineWidth))

drawOutline ==
  /\ pc = "idle"
  /\ \E color \in Colors, lineWidth \in LineWidths :
       Begin("drawOutline", color, drawOutlineCalls(Radius, color, lineWidth))

drawCircumpunct ==
  /\ pc = "idle"
  /\ \E color \in Colors :
       Begin("drawCircumpunct", color, drawCircumpunctCalls(Radius, color, 1, 2))

drawConcentricDots ==
  /\ pc = "idle"
  /\ \E color \in Colors, numCircles \in 0..MaxRepeat, ordered \in BOOLEAN :
       Begin("drawConcentricDots", color,
             drawConcentricDotsCalls(1, Radius, color, numCircles, 2, ordered))

drawSegmentedDots ==
  /\ pc = "idle"
  /\ \E color \in Colors, numSegments \in 0..MaxRepeat, lineWidth \in LineWidths :
       Begin("drawSegmentedDots", color,
             drawSegmentedDotsCalls(0, Radius, color, 1, numSegments, lineWidth))

drawSplash ==
  /\ pc = "idle"
  /\ \E color \in Colors, numDots \in 0..(2 * MaxRepeat) :
       \E rnd \in [1..((numDots + 1) \div 2) -> SplashSamples] :
         Begin("drawSplash", color, drawSplashCalls(0, Radius, color, numDots, rnd))

drawRadialGradient ==
  /\ pc = "idle"
  /\ \E color \in Colors : Begin("drawRadialGradient", color, drawRadialGradientCalls(Radius, color))

drawRadialVignette ==
  /\ pc = "idle"
  /\ \E color \in Colors : Begin("drawRadialVignette", color, drawRadialVignetteCalls(Radius, color))

addGrain2 ==
  /\ pc = "idle"
  /\ \E density \in Densities, grainSize \in GrainSizes :
       \E rnd \in [1..GrainAmount(size[1], size[2], density, grainSize) -> ValueSamples] :
         Begin("addGrain2", NoCall.color,
               addGrain2Calls(size[1], size[2], density, grainSize, rnd))

printFooter ==
  /\ pc = "idle"
  /\ \E seeds \in SeedsSamples, colorList \in ColorLists :
       Begin("printFooter", NoCall.color, printFooterCalls(size[1], size[2], seeds, colorList))

\* What an assignment to a property of the context stores: globalAlpha ignores
\* a value outside 0..1 and lineWidth one that is not positive.
Assigned(o) ==
  CASE o.key = "globalAlpha" -> IF o.n \in 0..4 THEN o.n ELSE ctx.globalAlpha
    [] o.key = "lineWidth" -> IF o.n > 0 THEN o.n ELSE ctx.lineWidth
    [] OTHER -> o.s

\* The running drawing function makes its next call on the context, and
\* returns after its last one.
contextCall ==
  /\ pc = "draw"
  /\ ops # <<>>
  /\ LET o == Head(ops)
         returns == Tail(ops) = <<>>
     IN  /\ ops' = Tail(ops)
         /\ pc' = IF returns THEN "idle" ELSE "draw"
         /\ call' = IF returns THEN NoCall ELSE call
         /\ ctxStack' = CASE o.op = "save" -> Append(ctxStack, ctx)
                          [] o.op = "restore" /\ ctxStack # <<>> ->
                               SubSeq(ctxStack, 1, Len(ctxStack) - 1)
                          [] OTHER -> ctxStack
         /\ ctx' = CASE o.op = "restore" /\ ctxStack # <<>> -> ctxStack[Len(ctxStack)]
                     [] o.op = "translate" ->
                          [ctx EXCEPT !.transform = <<ctx.transform[1] + o.dx,
                                                      ctx.transform[2] + o.dy>>]
                     [] o.op = "set" -> [ctx EXCEPT ![o.key] = Assigned(o)]
                     [] OTHER -> ctx
         /\ cursor' = IF o.op = "random" THEN Advance(cursor, o.n) ELSE cursor
         /\ painted' = IF returns THEN <<>>
                       ELSE IF o.op = "paint"
                              THEN Append(painted, [by |-> o.by, method |-> o.key,
                                                    globalAlpha |-> ctx.globalAlpha])
                              ELSE painted
  /\ UNCHANGED <<surface, size, style, styleArg, grainPixels, i, rngSeed, putCalls, calls,
                 input, drawn, visited, hist, cursorAtCall, mathCalls, seedArg, seedResult,
                 ctx0, stack0>>

\* ---------------------------------------------------- vocabulary of the claims
Last(sq) == sq[Len(sq)]

\* Number of pixels of the canvas a returned call worked on.
PixelsOf(h) == h.size[1] * h.size[2]

\* Red, green, blue, alpha of pixel k (counted from 0) of the bitmap b.
R(b, k) == b[4 * k + 1]
G(b, k) == b[4 * k + 2]
B(b, k) == b[4 * k + 3]
A(b, k) == b[4 * k + 4]

\* The calls that returned and ran with one of the given styles.
CallsOf(styles) == { n \in 1..Len(hist) : hist[n].style \in styles }

\* The byte y is the number x/4 rounded to the nearest integer, a tie going to
\* the even one, and then limited to 0..255.
StoredAs(x, y) ==
  /\ y \in 0..255
  /\ IF x <= 0 THEN y = 0
     ELSE IF x >= 1020 THEN y = 255
     ELSE /\ 4 * y - x \in -2..2
          /\ 4 * y - x \in {-2, 2} => y % 2 = 0

Abs(x) == IF x < 0 THEN 0 - x ELSE x

\* ------------------------------------------------------------------------ C1
\* C1: after addGrain with style "invert" every pixel has red, green and blue
\* replaced by 255 minus the input value and its alpha unchanged; the bitmap
\* [10,20,30,255, 200,200,200,0] becomes [245,235,225,255, 55,55,55,0].
C1_InvertComplements ==
  \A n \in CallsOf({"invert"}) :
    LET a == hist[n].input
        b == hist[n].output
    IN /\ hist[n].put
       /\ Len(b) = Len(a)
       /\ \A k \in 0..(PixelsOf(hist[n]) - 1) :
            /\ R(b, k) = 255 - R(a, k)
            /\ G(b, k) = 255 - G(a, k)
            /\ B(b, k) = 255 - B(a, k)
            /\ A(b, k) = A(a, k)
       /\ a = <<10, 20, 30, 255, 200, 200, 200, 0>>
            => b = <<245, 235, 225, 255, 55, 55, 55, 0>>

C1_Witness ==
  \E n \in CallsOf({"invert"}) :
    /\ hist[n].input = <<10, 20, 30, 255, 200, 200, 200, 0>>
    /\ hist[n].output = <<245, 235, 225, 255, 55, 55, 55, 0>>
    /\ surface = hist[n].output

\* ------------------------------------------------------------------------ C2
\* C2: two addGrain calls with style "invert" in a row give back the bitmap the
\* first of them read.
C2_InvertInvolution ==
  \A n \in CallsOf({"invert"}) :
    (n > 1 /\ hist[n - 1].style = "invert")
      => /\ hist[n].input = hist[n - 1].output
         /\ hist[n].output = hist[n - 1].input

C2_Witness ==
  /\ Len(hist) = 2
  /\ hist[1].style = "invert"
  /\ hist[2].style = "invert"
  /\ hist[1].output # hist[1].input
  /\ surface = hist[1].input
  /\ \E k \in 0..(PixelsOf(hist[1]) - 1) : A(hist[1].input, k) # 255

\* ------------------------------------------------------------------------ C3
\* C3 as stated: style "red" with the draw v of a pixel leaves exactly
\* (r + v, g - v/2, b - v/2, a) in the bitmap, nothing being limited to 0..255.
C3_RedUnclamped ==
  \A n \in CallsOf({"red"}) :
    \A k \in 0..(PixelsOf(hist[n]) - 1) :
      LET a == hist[n].input
          b == hist[n].output
          v == hist[n].drawn[k + 1]
      IN /\ 4 * R(b, k) = 4 * R(a, k) + v
         /\ 8 * G(b, k) = 8 * G(a, k) - v
         /\ 8 * B(b, k) = 8 * B(a, k) - v
         /\ A(b, k) = A(a, k)

\* C3 amended: style "red" draws one v in [50, 100] per pixel and stores
\* r + v, g - v/2 and b - v/2 through the conversion of the clamped byte array
\* (nearest integer, ties to even, limited to 0..255), alpha unchanged; the
\* bitmap [0,0,0,255] with the draw 100 becomes [100,0,0,255].
C3_RedClamped ==
  \A n \in CallsOf({"red"}) :
    LET a == hist[n].input
        b == hist[n].output
    IN /\ Len(hist[n].drawn) = PixelsOf(hist[n])
       /\ \A k \in 0..(PixelsOf(hist[n]) - 1) :
            LET v == hist[n].drawn[k + 1]
            IN /\ v \in (4 * 50)..(4 * 100)
               /\ StoredAs(4 * R(a, k) + v, R(b, k))
               /\ StoredAs((8 * G(a, k) - v) \div 2, G(b, k))
               /\ StoredAs((8 * B(a, k) - v) \div 2, B(b, k))
               /\ A(b, k) = A(a, k)
       /\ (a = <<0, 0, 0, 255>> /\ hist[n].drawn = <<400>>) => b = <<100, 0, 0, 255>>

C3_Witness ==
  \E n \in CallsOf({"red"}) :
    /\ hist[n].input = <<0, 0, 0, 255>>
    /\ hist[n].drawn = <<400>>
    /\ hist[n].output = <<100, 0, 0, 255>>

\* ------------------------------------------------------------------------ C4
\* C4 as stated: style "parallel" changes red, green and blue of a pixel by the
\* same amount.
C4_ParallelSameDelta ==
  \A n \in CallsOf({"parallel"}) :
    \A k \in 0..(PixelsOf(hist[n]) - 1) :
      LET a == hist[n].input
          b == hist[n].output
      IN /\ R(b, k) - R(a, k) = G(b, k) - G(a, k)
         /\ G(b, k) - G(a, k) = B(b, k) - B(a, k)

\* No sum is outside 0..255 and the draw is not halfway between two integers.
NoSaturation(a, k, v) ==
  /\ v % 4 # 2
  /\ \A c \in {R(a, k), G(a, k), B(a, k)} : 4 * c + v >= 0 /\ 4 * c + v <= 1020

\* C4 amended: style "parallel" adds the same draw v to red, green and blue of
\* a pixel and stores each sum through the conversion of the clamped byte
\* array; the three channels change by the same amount whenever no sum leaves
\* 0..255 and v is not halfway between two integers.
C4_ParallelSameDraw ==
  \A n \in CallsOf({"parallel"}) :
    /\ Len(hist[n].drawn) = PixelsOf(hist[n])
    /\ \A k \in 0..(PixelsOf(hist[n]) - 1) :
         LET a == hist[n].input
             b == hist[n].output
             v == hist[n].drawn[k + 1]
         IN /\ StoredAs(4 * R(a, k) + v, R(b, k))
            /\ StoredAs(4 * G(a, k) + v, G(b, k))
            /\ StoredAs(4 * B(a, k) + v, B(b, k))
            /\ NoSaturation(a, k, v)
                 => /\ R(b, k) - R(a, k) = G(b, k) - G(a, k)
                    /\ G(b, k) - G(a, k) = B(b, k) - B(a, k)

C4_Witness ==
  \E n \in CallsOf({"parallel"}) :
    \E k \in 0..(PixelsOf(hist[n]) - 1) :
      /\ NoSaturation(hist[n].input, k, hist[n].drawn[k + 1])
      /\ R(hist[n].output, k) # R(hist[n].input, k)
      /\ R(hist[n].input, k) # G(hist[n].input, k)

\* ------------------------------------------------------------------------ C5
\* C5: after addGrain with style "colorful" or "parallel" the alpha of every
\* pixel is 255, whatever it was before.
C5_AlphaOpaque ==
  \A n \in CallsOf({"colorful", "parallel"}) :
    /\ hist[n].put
    /\ Len(hist[n].output) = 4 * PixelsOf(hist[n])
    /\ \A k \in 0..(PixelsOf(hist[n]) - 1) : A(hist[n].output, k) = 255

C5_Witness ==
  /\ Len(hist) = 2
  /\ hist[1].style = "parallel"
  /\ A(hist[1].input, 0) = 7
  /\ hist[2].style = "colorful"
  /\ A(surface, 0) = 255

\* ------------------------------------------------------------------------ C6
\* C6: addGrain with a style that is none of "colorful", "parallel", "red",
\* "invert" returns without an error, leaves the bitmap as it was and does not
\* call putImageData.
Recognized == {"colorful", "parallel", "red", "invert"}

C6_UnknownStyleNoOp ==
  /\ \A n \in 1..Len(hist) :
       hist[n].style \notin Recognized
         => /\ hist[n].output = hist[n].input
            /\ ~hist[n].put
            /\ hist[n].drawn = <<>>
            /\ hist[n].visited = <<>>
  /\ putCalls = Cardinality({ n \in 1..Len(hist) : hist[n].put })
  /\ (pc = "idle" /\ hist # <<>>) => surface = Last(hist).output
  /\ pc # "idle" => style \in Recognized

C6_Witness ==
  /\ pc = "idle"
  /\ Len(hist) = 2
  /\ hist[1].style = "colorful"
  /\ hist[2].style = "nonsense"
  /\ surface = hist[1].output
  /\ putCalls = 1

\* ------------------------------------------------------------------------ C7
\* C7: style "colorful" draws three values in [-25, 25] per pixel and adds one
\* to each of red, green and blue; style "parallel" draws one value in
\* [-15, 15] per pixel and adds it to all three; no channel of any pixel ends
\* more than 25 (colorful) or 15 (parallel) away from its input value.
C7_JitterMagnitude ==
  /\ \A n \in CallsOf({"colorful"}) :
       LET a == hist[n].input
           b == hist[n].output
           d == hist[n].drawn
       IN /\ Len(d) = 3 * PixelsOf(hist[n])
          /\ \A j \in 1..Len(d) : d[j] \in (4 * (-25))..(4 * 25)
          /\ \A k \in 0..(PixelsOf(hist[n]) - 1) :
               /\ StoredAs(4 * R(a, k) + d[3 * k + 1], R(b, k))
               /\ StoredAs(4 * G(a, k) + d[3 * k + 2], G(b, k))
               /\ StoredAs(4 * B(a, k) + d[3 * k + 3], B(b, k))
               /\ Abs(R(b, k) - R(a, k)) <= 25
               /\ Abs(G(b, k) - G(a, k)) <= 25
               /\ Abs(B(b, k) - B(a, k)) <= 25
  /\ \A n \in CallsOf({"parallel"}) :
       LET a == hist[n].input
           b == hist[n].output
           d == hist[n].drawn
       IN /\ Len(d) = PixelsOf(hist[n])
          /\ \A j \in 1..Len(d) : d[j] \in (4 * (-15))..(4 * 15)
          /\ \A k \in 0..(PixelsOf(hist[n]) - 1) :
               /\ StoredAs(4 * R(a, k) + d[k + 1], R(b, k))
               /\ StoredAs(4 * G(a, k) + d[k + 1], G(b, k))
               /\ StoredAs(4 * B(a, k) + d[k + 1], B(b, k))
               /\ Abs(R(b, k) - R(a, k)) <= 15
               /\ Abs(G(b, k) - G(a, k)) <= 15
               /\ Abs(B(b, k) - B(a, k)) <= 15

\* A colorful call that moved the channels of a pixel by -25, +25 and a third
\* amount, followed by a parallel call that moved a channel by 15.
C7_Witness ==
  /\ Len(hist) = 2
  /\ hist[1].style = "colorful"
  /\ R(hist[1].output, 0) - R(hist[1].input, 0) = 0 - 25
  /\ G(hist[1].output, 0) - G(hist[1].input, 0) = 25
  /\ B(hist[1].output, 0) - B(hist[1].input, 0) \notin {25, 0 - 25}
  /\ hist[2].style = "parallel"
  /\ Abs(G(hist[2].output, 0) - G(hist[2].input, 0)) = 15

\* ------------------------------------------------------------------------ C8
\* An initiateSeed step: a call that returns at once and is not an addGrain call.
SeedStep == calls' = calls + 1 /\ pc' = "idle" /\ hist' = hist

\* C8: initiateSeed leaves the shared generator (its seed and its cursor) as
\* it was, whatever the argument; it returns a string, and for a truthy seed
\* that string is String(seed).
C8_SeedLeavesGenerator ==
  [][SeedStep =>
       /\ cursor' = cursor
       /\ rngSeed' = rngSeed
       /\ seedResult'.t = "string"
       /\ seedArg' = Num(123456) => seedResult' = Str("123456")
       /\ seedArg' = Str("abc") => seedResult' = Str("abc")
       /\ seedArg' \in {Undefined, Null, Num(0), Str("")}
            => /\ mathCalls' = mathCalls + 1
               /\ seedResult' \in {Str("0"), Str("40302"), Str("999999")}
       /\ seedArg' \notin {Undefined, Null, Num(0), Str("")} => mathCalls' = mathCalls]_vars

C8_Witness ==
  /\ cursor = 3
  /\ rngSeed = "42"
  /\ Len(hist) = 1
  /\ calls = 2
  /\ seedArg = Num(123456)
  /\ seedResult = Str("123456")

\* ------------------------------------------------------------------------ C9
\* Draws per pixel of each style.
DrawsPerPixel(st) ==
  CASE st = "colorful" -> 3
    [] st = "parallel" -> 1
    [] st = "red" -> 1
    [] OTHER -> 0

\* C9: besides the bitmap it is given, addGrain changes only the cursor of the
\* shared generator: a call moves it forward by 3 draws per pixel for
\* "colorful", 1 per pixel for "parallel" and "red", 0 for "invert" and for
\* an unrecognized style, and no step ever moves it back.
C9_CursorAdvance ==
  /\ [](\A n \in 1..Len(hist) :
          /\ hist[n].to - hist[n].from = DrawsPerPixel(hist[n].style) * PixelsOf(hist[n])
          /\ Len(hist[n].drawn) = hist[n].to - hist[n].from)
  /\ [](pc = "idle" => cursor = cursorAtCall + DrawsPerPixel(style) * (Len(input) \div 4))
  /\ [][/\ cursor' >= cursor
        /\ rngSeed' = rngSeed
        /\ mathCalls' = mathCalls
        /\ seedResult' = seedResult
        /\ size' = size]_vars

C9_Witness ==
  /\ Len(hist) = 2
  /\ hist[1].style = "parallel"
  /\ hist[1].to = 2
  /\ hist[2].style = "red"
  /\ hist[2].from = 2
  /\ cursor = 4

\* ----------------------------------------------------------------------- C10
\* The loop indices 0, 4, 8, ... of the first n pixels.
Stride(n) == [j \in 1..n |-> 4 * (j - 1)]

\* C10: for a bitmap of 4 * width * height bytes and a recognized style,
\* addGrain makes one pass that runs the loop body once per pixel, at the
\* indices 0, 4, 8, ... in this order, and then returns; the bitmap keeps
\* its length.
C10_SinglePass ==
  /\ [](pc # "idle" =>
          /\ Len(grainPixels) = 4 * size[1] * size[2]
          /\ i = 4 * Len(visited)
          /\ i <= Len(grainPixels)
          /\ visited = Stride(Len(visited)))
  /\ [](\A n \in CallsOf(Recognized) :
          /\ hist[n].visited = Stride(PixelsOf(hist[n]))
          /\ Len(hist[n].input) = 4 * PixelsOf(hist[n])
          /\ Len(hist[n].output) = Len(hist[n].input))
  /\ [](Len(surface) = 4 * size[1] * size[2])
  /\ (pc # "idle") ~> (pc = "idle")

C10_Witness ==
  /\ pc = "idle"
  /\ Len(hist) = 2
  /\ hist[1].style = "invert"
  /\ hist[1].visited = <<0, 4>>
  /\ hist[2].style = "colorful"
  /\ hist[2].visited = <<0, 4>>
  /\ Len(surface) = 8

\* ----------------------------------------------------------------------- C11
\* C11: addGrain called without a style argument applies no grain: the
\* parameter takes its default "parallelGrain", which is no case of the switch,
\* so the call returns with the bitmap as getImageData read it, takes no draw
\* from the generator and does not call putImageData.
C11_OmittedStyleNoOp ==
  /\ [](\A n \in 1..Len(hist) :
          hist[n].arg = Omitted
            => /\ hist[n].style = "parallelGrain"
               /\ hist[n].output = hist[n].input
               /\ hist[n].to = hist[n].from
               /\ hist[n].drawn = <<>>
               /\ hist[n].visited = <<>>
               /\ ~hist[n].put)
  /\ [][(calls' = calls + 1 /\ styleArg' = Omitted)
          => /\ pc' = "idle"
             /\ Len(hist') = Len(hist) + 1
             /\ surface' = surface
             /\ cursor' = cursor
             /\ putCalls' = putCalls]_vars

C11_Witness ==
  /\ pc = "idle"
  /\ Len(hist) = 2
  /\ hist[1].style = "colorful"
  /\ hist[2].arg = Omitted
  /\ surface = hist[1].output
  /\ surface # hist[1].input
  /\ cursor = 3
  /\ putCalls = 1

\* ----------------------------------------------------------------------- C12
\* The attributes of the drawing state the drawing functions assign.
SameDrawingState(a, b) ==
  /\ a.transform = b.transform
  /\ a.fillStyle = b.fillStyle
  /\ a.strokeStyle = b.strokeStyle
  /\ a.lineWidth = b.lineWidth
  /\ a.globalAlpha = b.globalAlpha
  /\ a.globalCompositeOperation = b.globalCompositeOperation

AlphaSetters == {"drawSingleDot", "drawArc", "drawOutline"}

\* C13: drawSingleDot, drawArc and drawOutline fill or stroke with globalAlpha
\* equal to color.alpha when color.alpha is truthy, and with globalAlpha 1 when
\* the alpha of the colour is 0 or missing; they never draw with globalAlpha 0.
C13_AlphaOrOpaque ==
  \A n \in 1..Len(painted) :
    painted[n].by \in AlphaSetters
      => /\ (call.color.hasAlpha /\ call.color.alpha # 0)
              => painted[n].globalAlpha = call.color.alpha
         /\ (call.color.hasAlpha /\ call.color.alpha = 0) => painted[n].globalAlpha = 4
         /\ ~call.color.hasAlpha => painted[n].globalAlpha = 4
         /\ painted[n].globalAlpha # 0

\* drawCircumpunct with a colour of alpha 0, on a context the sketch had set to
\* alpha 0.5: drawOutline has stroked and drawSingleDot has filled, both with
\* globalAlpha 1.
C13_Witness ==
  /\ call.fn = "drawCircumpunct"
  /\ call.color.hasAlpha
  /\ call.color.alpha = 0
  /\ ctx0.globalAlpha = 2
  /\ Len(painted) = 2
  /\ painted[1].by = "drawOutline"
  /\ painted[1].globalAlpha = 4
  /\ painted[2].by = "drawSingleDot"
  /\ painted[2].globalAlpha = 4

\* ------------------------------------------------------------ specifications
GrainNext == addGrain \/ colorGrain \/ parallelGrain \/ redGrain \/ invert

Spec == Init /\ [][GrainNext]_vars

\* The whole module on a canvas of one pixel.
SeedInit == InitWith({<<1, 1>>}, RngSeeds, {DefaultContext}, {<<>>})

Next == GrainNext \/ initiateSeed

SeedSpec == SeedInit /\ [][Next]_vars

\* addGrain runs to completion once called: nothing suspends the loop.  The
\* canvases are the largest ones sampled.
FairInit ==
  InitWith({ wh \in Sizes : wh[1] * wh[2] = MaxPixels }, {"unseeded"}, {DefaultContext}, {<<>>})

FairSpec == FairInit /\ [][GrainNext]_vars /\ WF_vars(GrainNext)

\* The drawing functions on a context the sketch has set up or left alone,
\* with or without states it has saved.
DrawInit ==
  InitWith(Sizes, {"unseeded"}, {DefaultContext, SketchContext}, {<<>>, <<DefaultContext>>})

DrawNext ==
  \/ drawSingleDot \/ drawArc \/ drawOutline \/ drawCircumpunct \/ drawConcentricDots
  \/ drawSegmentedDots \/ drawSplash \/ drawRadialGradient \/ drawRadialVignette
  \/ addGrain2 \/ printFooter \/ contextCall

DrawSpec == DrawInit /\ [][DrawNext]_vars

====
